---- MODULE Spec2Model ----
(***************************************************************************)
(* Model of saga (src/main.rs): a feed poller that, once (single-shot) or   *)
(* forever (daemon), visits the configured feeds, selects at most one entry *)
(* per feed, packages the selection as an EPUB and mails it.                *)
(*                                                                          *)
(* Instants (published, cutoff, clock, feeds.last_processed) are integers   *)
(* in one unit; a sleep of fixed length moves the clock on by one.  The     *)
(* database file survives between process                                   *)
(* starts (CREATE TABLE IF NOT EXISTS), so its two tables start with any    *)
(* content; the program itself contains no INSERT or UPDATE.                *)
(***************************************************************************)
EXTENDS Integers, Sequences, FiniteSets, TLC

\* ---------------------------------------------------------------- bounds
\* last instant of the wall clock that the model explores
MaxTime == 5
\* largest number of entries one fetch of a feed returns
MaxFetch == 2
\* largest last_processed value found in the feeds table at start
MaxStamp == 1

\* ------------------------------------------------------- configuration
Urls == <<"feedA", "feedB">>

\* the items the two feeds can serve: id and published instant
FeedItems ==
    [feedA |-> { [id |-> "a", published |-> 1],
                 [id |-> "b", published |-> 1],
                 [id |-> "c", published |-> 2] },
     feedB |-> { [id |-> "d", published |-> 1] }]

AllIds == {"a", "b", "c", "d"}

\* lexicographic order of the ids (String::cmp)
IdRank == [a |-> 1, b |-> 2, c |-> 3, d |-> 4]

\* wall clock at process start
StartTime == 2

NoEntry == [id |-> "-", published |-> 0]

\* ------------------------------------------------------------ sequences
Range(s) == { s[k] : k \in 1..Len(s) }

\* the feed that serves an entry
FeedOf(e) == CHOOSE u \in Range(Urls) : e \in FeedItems[u]

\* all sequences of distinct elements of S, of length at most n
DistinctSeqs(S, n) ==
    { s \in UNION { [1..k -> S] : k \in 0..n } :
        \A p, q \in 1..Len(s) : p # q => s[p] # s[q] }

\* ------------------------------------------------------------ the store
\* is_entry_already_processed: SELECT count(*) FROM entries WHERE id = ?1
is_entry_already_processed(tbl_entries, id) ==
    Cardinality({ x \in tbl_entries : x = id }) > 0

\* get_feed_last_processed: the row's value, or None when there is no row
\* (a failing query is the caller's store fault)
get_feed_last_processed(tbl_feeds, url) ==
    IF url \in DOMAIN tbl_feeds
    THEN [some |-> TRUE, at |-> tbl_feeds[url]]
    ELSE [some |-> FALSE, at |-> 0]

\* ----------------------------------------------------------- the selector
\* new_entries_of with an off-by-one comparison: an entry published at the
\* cutoff passes
new_entries_at_cutoff(fetched, cut, tbl_entries) ==
    SelectSeq(fetched,
              LAMBDA x : x.published <= cut
                         /\ ~is_entry_already_processed(tbl_entries, x.id))

\* new_entries_of without the processed-id test
new_entries_any_state(fetched, cut, tbl_entries) ==
    SelectSeq(fetched, LAMBDA x : x.published < cut)

\* the filter of get_entry: published before the cutoff and not yet processed
new_entries_of(fetched, cut, tbl_entries) ==
    SelectSeq(fetched,
              LAMBDA x : x.published < cut
                         /\ ~is_entry_already_processed(tbl_entries, x.id))

\* the filter of pick_entry: published after the last processed instant
unprocessed_entries_of(news, last_processed) ==
    SelectSeq(news, LAMBDA x : x.published > last_processed)

\* insert_by_published with an unstable comparison: equal instants change
\* places
RECURSIVE insert_unstable(_, _)
insert_unstable(sorted, x) ==
    IF sorted = <<>> THEN <<x>>
    ELSE IF Head(sorted).published < x.published
         THEN <<Head(sorted)>> \o insert_unstable(Tail(sorted), x)
         ELSE <<x>> \o sorted

\* slice::sort_by(|a, b| a.published.cmp(&b.published)) is a stable sort
RECURSIVE insert_by_published(_, _)
insert_by_published(sorted, x) ==
    IF sorted = <<>> THEN <<x>>
    ELSE IF Head(sorted).published <= x.published
         THEN <<Head(sorted)>> \o insert_by_published(Tail(sorted), x)
         ELSE <<x>> \o sorted

\* sort_by_published with the sort left out
sort_left_out(s) == s

RECURSIVE sort_by_published(_)
sort_by_published(s) ==
    IF s = <<>> THEN <<>>
    ELSE insert_by_published(sort_by_published(SubSeq(s, 1, Len(s) - 1)),
                             s[Len(s)])

Ok(e)  == [kind |-> "Some", entry |-> e]
None   == [kind |-> "None", entry |-> NoEntry]
Err    == [kind |-> "Err", entry |-> NoEntry]
Panic  == [kind |-> "Panic", entry |-> NoEntry]

\* slice::first().ok_or(..)
first_or_err(s) == IF s = <<>> THEN Err ELSE Ok(s[1])

\* choose_or_err that takes the first element whatever the draw
choose_first(s, rnd) == IF s = <<>> THEN Err ELSE Ok(s[1])

\* slice::choose(rng): rnd is the generator's draw
choose_or_err(s, rnd) ==
    IF s = <<>> THEN Err ELSE Ok(s[((rnd - 1) % Len(s)) + 1])

\* pick_entry; fault = "feeds" is a failing last_processed query
pick_entry(tbl_feeds, feed_conf, news, fault, rnd) ==
    IF fault = "feeds" THEN Err
    ELSE LET lp == get_feed_last_processed(tbl_feeds, feed_conf.url) IN
         IF lp.some
         THEN LET unprocessed_entries == unprocessed_entries_of(news, lp.at) IN
              IF unprocessed_entries = <<>> /\ feed_conf.random
              THEN choose_or_err(news, rnd)
              ELSE first_or_err(sort_by_published(unprocessed_entries))
         ELSE first_or_err(news)

\* get_entry; fetch.ok = FALSE is a failing get_entries, fault = "entries" a
\* failing processed-id query, which the filter unwraps
get_entry(tbl_entries, tbl_feeds, feed_conf, cut, fetch, fault, rnd) ==
    IF ~fetch.ok THEN Err
    ELSE IF fault = "entries"
            /\ \E k \in 1..Len(fetch.items) : fetch.items[k].published < cut
         THEN Panic
         ELSE LET news == new_entries_of(fetch.items, cut, tbl_entries) IN
              IF news = <<>> THEN None
              ELSE pick_entry(tbl_feeds, feed_conf, news, fault, rnd)

\* the store query that fault names is the one get_entry runs into: the
\* processed-id query runs for an entry published before the cutoff, the
\* last_processed query when the filter leaves something
store_fault_hit(tbl_entries, cut, fetch, fault) ==
    /\ fetch.ok
    /\ \/ /\ fault = "entries"
          /\ \E k \in 1..Len(fetch.items) : fetch.items[k].published < cut
       \/ /\ fault = "feeds"
          /\ new_entries_of(fetch.items, cut, tbl_entries) # <<>>

\* outcomes of get_entries(url)
FetchOutcomes(url) ==
    { [ok |-> FALSE, items |-> <<>>] }
    \cup { [ok |-> TRUE, items |-> s] : s \in DistinctSeqs(FeedItems[url], MaxFetch) }

StoreFaults == {"none", "entries", "feeds"}

\* the store faults a call can run into
StoreFaultsOf(tbl_entries, cut, fetch) ==
    { f \in StoreFaults : f = "none" \/ store_fault_hit(tbl_entries, cut, fetch, f) }

\* the draws of the random generator: a position in new_entries
DrawsOf(tbl_entries, cut, fetch) ==
    LET n == Len(new_entries_of(fetch.items, cut, tbl_entries)) IN
    IF n = 0 THEN {1} ELSE 1..n

\* ---------------------------------------------------------------- state
VARIABLES
    daemon,       \* cli.daemon = Some(true)
    rss,          \* config.rss
    tbl_entries,  \* table entries: the processed ids
    tbl_feeds,    \* table feeds: url -> last_processed
    clock,        \* Utc::now()
    pc,           \* position of the main thread
    next_fire,    \* start_daemon: next
    cutoff,       \* process: cutoff
    idx,          \* process: position in config.rss
    entries,      \* process: entries
    call,         \* the last get_entry call: its feed, inputs and result
    visited,      \* feeds handed to get_entry in this run
    failed,       \* feeds whose fetch failed in this run
    epub,         \* ids whose content generate_epub put in the document
    packaged,     \* generate_epub was called in this run
    mail,         \* send_email: "none", "sent", "failed"
    result,       \* what process returned: "running", "Ok", "Err", "Panic"
    delivered,    \* ids of the batches mailed by the runs that have ended
    faulted,      \* a store query has failed since the process started
    db_before,    \* the two tables as they were when the current run began
    status        \* exit status of the process: "running", "zero", "nonzero", "abort"

vars == <<daemon, rss, tbl_entries, tbl_feeds, clock, pc, next_fire,
          cutoff, idx, entries, call, visited, failed, epub, packaged, mail,
          result, delivered, faulted, db_before, status>>

run_vars == <<cutoff, idx, entries, call, visited, failed, epub, packaged,
              mail, result>>

NoCall == [feed |-> 0, fetch |-> [ok |-> TRUE, items |-> <<>>],
           fault |-> "none", res |-> None]

Init ==
    /\ daemon \in BOOLEAN
    /\ rss \in { << [url |-> Urls[1], random |-> r1],
                    [url |-> Urls[2], random |-> r2] >> : r1, r2 \in BOOLEAN }
    /\ tbl_entries \in SUBSET AllIds
    /\ tbl_feeds \in UNION { [D -> 0..MaxStamp] : D \in SUBSET Range(Urls) }
    /\ clock = StartTime
    /\ pc = "main"
    /\ next_fire = 0
    /\ cutoff = 0
    /\ idx = 0
    /\ entries = <<>>
    /\ call = NoCall
    /\ visited = {}
    /\ failed = {}
    /\ epub = <<>>
    /\ packaged = FALSE
    /\ mail = "none"
    /\ result = "running"
    /\ delivered = {}
    /\ faulted = FALSE
    /\ db_before = [entries |-> tbl_entries, feeds |-> tbl_feeds]
    /\ status = "running"

\* main: match cli.daemon; start_daemon unwraps the parsed schedule before
\* its loop, so a schedule that does not parse ends the process at once
main ==
    /\ pc = "main"
    /\ IF daemon
       THEN \E parsed \in BOOLEAN :
              pc' = IF parsed THEN "daemon_loop" ELSE "panicked"
       ELSE pc' = "process"
    /\ UNCHANGED <<db_before, faulted, daemon, rss, tbl_entries, tbl_feeds, clock,
                   next_fire, delivered, status>>
    /\ UNCHANGED run_vars

\* process: the first two statements
process_begin ==
    /\ pc = "process"
    /\ entries' = <<>>
    /\ cutoff' = clock
    /\ idx' = 1
    /\ call' = NoCall
    /\ visited' = {}
    /\ failed' = {}
    /\ epub' = <<>>
    /\ packaged' = FALSE
    /\ mail' = "none"
    /\ result' = "running"
    /\ db_before' = [entries |-> tbl_entries, feeds |-> tbl_feeds]
    /\ pc' = "feeds"
    /\ UNCHANGED <<faulted, daemon, rss, tbl_entries, tbl_feeds, clock,
                   next_fire, delivered, status>>

\* process_feed that pushes a found entry twice
process_feed_push_twice ==
    /\ pc = "feeds"
    /\ idx <= Len(rss)
    /\ \E fetch \in FetchOutcomes(rss[idx].url) :
       \E fault \in StoreFaultsOf(tbl_entries, cutoff, fetch),
          rnd \in DrawsOf(tbl_entries, cutoff, fetch) :
         LET r == get_entry(tbl_entries, tbl_feeds, rss[idx], cutoff,
                            fetch, fault, rnd)
             hit == fault # "none" IN
         /\ call' = [feed |-> idx, fetch |-> fetch,
                     fault |-> fault, res |-> r]
         /\ faulted' = (faulted \/ hit)
         /\ visited' = visited \cup {idx}
         /\ failed' = IF fetch.ok THEN failed ELSE failed \cup {idx}
         /\ entries' = IF r.kind = "Some" THEN Append(Append(entries, r.entry), r.entry)
                       ELSE entries
         /\ idx' = IF r.kind \in {"Some", "None"} THEN idx + 1 ELSE idx
         /\ result' = IF r.kind \in {"Err", "Panic"} THEN r.kind ELSE result
         /\ pc' = CASE r.kind = "Err" -> "returned"
                    [] r.kind = "Panic" -> "panicked"
                    [] OTHER -> IF idx + 1 > Len(rss) THEN "epub" ELSE "feeds"
    /\ UNCHANGED <<db_before, daemon, rss, tbl_entries, tbl_feeds, clock,
                   next_fire, cutoff, epub, packaged, mail, delivered,
                   status>>

\* process: one iteration of the loop over config.rss
process_feed ==
    /\ pc = "feeds"
    /\ idx <= Len(rss)
    /\ \E fetch \in FetchOutcomes(rss[idx].url) :
       \E fault \in StoreFaultsOf(tbl_entries, cutoff, fetch),
          rnd \in DrawsOf(tbl_entries, cutoff, fetch) :
         LET r == get_entry(tbl_entries, tbl_feeds, rss[idx], cutoff,
                            fetch, fault, rnd)
             hit == fault # "none" IN
         /\ call' = [feed |-> idx, fetch |-> fetch,
                     fault |-> fault, res |-> r]
         /\ faulted' = (faulted \/ hit)
         /\ visited' = visited \cup {idx}
         /\ failed' = IF fetch.ok THEN failed ELSE failed \cup {idx}
         /\ entries' = IF r.kind = "Some" THEN Append(entries, r.entry)
                       ELSE entries
         /\ idx' = IF r.kind \in {"Some", "None"} THEN idx + 1 ELSE idx
         /\ result' = IF r.kind \in {"Err", "Panic"} THEN r.kind ELSE result
         /\ pc' = CASE r.kind = "Err" -> "returned"
                    [] r.kind = "Panic" -> "panicked"
                    [] OTHER -> IF idx + 1 > Len(rss) THEN "epub" ELSE "feeds"
    /\ UNCHANGED <<db_before, daemon, rss, tbl_entries, tbl_feeds, clock,
                   next_fire, cutoff, epub, packaged, mail, delivered,
                   status>>

\* generate_epub: the document holds the content of entries.first().unwrap()
generate_epub ==
    /\ pc = "epub"
    /\ packaged' = TRUE
    /\ IF entries = <<>>
       THEN /\ result' = "Panic"
            /\ pc' = "panicked"
            /\ epub' = epub
       ELSE \E built \in BOOLEAN :
              IF built
              THEN /\ epub' = <<entries[1].id>>
                   /\ pc' = "write"
                   /\ result' = result
              ELSE /\ epub' = epub
                   /\ pc' = "returned"
                   /\ result' = "Err"
    /\ UNCHANGED <<db_before, faulted, daemon, rss, tbl_entries, tbl_feeds, clock,
                   next_fire, cutoff, idx, entries, call, visited, failed,
                   mail,
                   delivered, status>>

\* fs::write(&epub_name, &epub_content)?
write_file ==
    /\ pc = "write"
    /\ \E written \in BOOLEAN :
         /\ pc' = IF written THEN "send" ELSE "returned"
         /\ result' = IF written THEN result ELSE "Err"
    /\ UNCHANGED <<db_before, faulted, daemon, rss, tbl_entries, tbl_feeds, clock,
                   next_fire, cutoff, idx, entries, call, visited, failed,
                   epub,
                   packaged, mail, delivered, status>>

\* the commit the comment at the end of process announces: the batch ids
\* into entries, the published instants into feeds
committed_entries(batch) == tbl_entries \cup { batch[k].id : k \in 1..Len(batch) }

committed_feeds(batch, at(_)) ==
    [u \in DOMAIN tbl_feeds \cup { FeedOf(batch[k]) : k \in 1..Len(batch) } |->
        IF \E k \in 1..Len(batch) : FeedOf(batch[k]) = u
        THEN at((CHOOSE k \in 1..Len(batch) : FeedOf(batch[k]) = u))
        ELSE tbl_feeds[u]]

\* send_email followed by a commit that does not look at what the mailer
\* reported
send_email_commit_unchecked ==
    /\ pc = "send"
    /\ \E outcome \in {"build_err", "sent", "failed"} :
         /\ mail' = IF outcome = "build_err" THEN mail ELSE outcome
         /\ result' = IF outcome = "build_err" THEN "Err" ELSE "Ok"
         /\ delivered' = IF outcome = "sent"
                         THEN delivered \cup { entries[k].id : k \in 1..Len(entries) }
                         ELSE delivered
         /\ tbl_entries' = IF outcome = "build_err" THEN tbl_entries
                           ELSE committed_entries(entries)
         /\ tbl_feeds' = IF outcome = "build_err" THEN tbl_feeds
                         ELSE committed_feeds(entries, LAMBDA k : entries[k].published)
    /\ pc' = "returned"
    /\ UNCHANGED <<db_before, faulted, daemon, rss, clock, next_fire, cutoff,
                   idx, entries, call, visited, failed, epub, packaged,
                   status>>

\* send_email followed by a commit after a successful send that stores
\* DateTime::timestamp() (seconds) where the column holds milliseconds
send_email_commit_seconds ==
    /\ pc = "send"
    /\ \E outcome \in {"build_err", "sent", "failed"} :
         /\ mail' = IF outcome = "build_err" THEN mail ELSE outcome
         /\ result' = IF outcome = "build_err" THEN "Err" ELSE "Ok"
         /\ delivered' = IF outcome = "sent"
                         THEN delivered \cup { entries[k].id : k \in 1..Len(entries) }
                         ELSE delivered
         /\ tbl_entries' = IF outcome = "sent" THEN committed_entries(entries)
                           ELSE tbl_entries
         /\ tbl_feeds' = IF outcome = "sent"
                         THEN committed_feeds(entries,
                                  LAMBDA k : entries[k].published \div 1000)
                         ELSE tbl_feeds
    /\ pc' = "returned"
    /\ UNCHANGED <<db_before, faulted, daemon, rss, clock, next_fire, cutoff,
                   idx, entries, call, visited, failed, epub, packaged,
                   status>>

\* send_email and the end of process: a message or relay that cannot be built
\* is an error, a failing mailer.send is logged and Ok(()) returned
send_email ==
    /\ pc = "send"
    /\ \E outcome \in {"build_err", "sent", "failed"} :
         /\ mail' = IF outcome = "build_err" THEN mail ELSE outcome
         /\ result' = IF outcome = "build_err" THEN "Err" ELSE "Ok"
         /\ delivered' = IF outcome = "sent"
                         THEN delivered \cup { entries[k].id : k \in 1..Len(entries) }
                         ELSE delivered
    /\ pc' = "returned"
    /\ UNCHANGED <<db_before, faulted, daemon, rss, tbl_entries, tbl_feeds, clock,
                   next_fire, cutoff, idx, entries, call, visited, failed,
                   epub,
                   packaged, status>>

\* main returns what process returned
main_exit ==
    /\ pc = "returned"
    /\ ~daemon
    /\ pc' = "exit"
    /\ status' = IF result = "Ok" THEN "zero" ELSE "nonzero"
    /\ UNCHANGED <<db_before, faulted, daemon, rss, tbl_entries, tbl_feeds, clock,
                   next_fire, delivered>>
    /\ UNCHANGED run_vars

\* a panic unwinds the only thread: the process ends, in either mode
panic_abort ==
    /\ pc = "panicked"
    /\ pc' = "exit"
    /\ status' = "abort"
    /\ UNCHANGED <<db_before, faulted, daemon, rss, tbl_entries, tbl_feeds, clock,
                   next_fire, delivered>>
    /\ UNCHANGED run_vars

\* daemon_compute that leaves the loop when there is no next instant
daemon_compute_gives_up ==
    /\ pc = "daemon_loop"
    /\ clock < MaxTime
    /\ \/ \E nx \in (clock + 1)..MaxTime, late \in 0..2 :
            /\ clock + late <= MaxTime
            /\ next_fire' = nx
            /\ clock' = clock + late
            /\ pc' = "daemon_wait"
       \/ /\ clock' = clock
          /\ pc' = "panicked"
          /\ next_fire' = next_fire
    /\ UNCHANGED <<db_before, faulted, daemon, rss, tbl_entries, tbl_feeds, delivered,
                   status>>
    /\ UNCHANGED run_vars

\* start_daemon: schedule.upcoming(Utc).next(); without a next instant the
\* loop logs, sleeps and tries again
daemon_compute ==
    /\ pc = "daemon_loop"
    /\ clock < MaxTime
    /\ \/ \E nx \in (clock + 1)..MaxTime, late \in 0..2 :
            /\ clock + late <= MaxTime
            /\ next_fire' = nx
            /\ clock' = clock + late
            /\ pc' = "daemon_wait"
       \/ /\ clock' = clock + 1
          /\ pc' = "daemon_loop"
          /\ next_fire' = next_fire
    /\ UNCHANGED <<db_before, faulted, daemon, rss, tbl_entries, tbl_feeds, delivered,
                   status>>
    /\ UNCHANGED run_vars

\* daemon_wait that calls process without sleeping
daemon_wait_no_sleep ==
    /\ pc = "daemon_wait"
    /\ clock' = clock
    /\ pc' = "process"
    /\ UNCHANGED <<db_before, faulted, daemon, rss, tbl_entries, tbl_feeds, next_fire,
                   delivered,
                   status>>
    /\ UNCHANGED run_vars

\* start_daemon: sleep until next when it lies ahead, then call process
daemon_wait ==
    /\ pc = "daemon_wait"
    /\ clock' = IF next_fire > clock THEN next_fire ELSE clock
    /\ pc' = "process"
    /\ UNCHANGED <<db_before, faulted, daemon, rss, tbl_entries, tbl_feeds, next_fire,
                   delivered,
                   status>>
    /\ UNCHANGED run_vars

\* start_daemon: an Err of process is logged, then sleep one second and loop;
\* the locals of process and of the iteration are gone
daemon_after ==
    /\ pc = "returned"
    /\ daemon
    /\ clock < MaxTime
    /\ clock' = clock + 1
    /\ pc' = "daemon_loop"
    /\ next_fire' = 0
    /\ cutoff' = 0
    /\ idx' = 0
    /\ entries' = <<>>
    /\ call' = NoCall
    /\ visited' = {}
    /\ failed' = {}
    /\ epub' = <<>>
    /\ packaged' = FALSE
    /\ mail' = "none"
    /\ result' = "running"
    /\ UNCHANGED <<db_before, faulted, daemon, rss, tbl_entries, tbl_feeds, delivered,
                   status>>

Next ==
    \/ main
    \/ process_begin
    \/ process_feed
    \/ generate_epub
    \/ write_file
    \/ send_email
    \/ main_exit
    \/ panic_abort
    \/ daemon_compute
    \/ daemon_wait
    \/ daemon_after

Spec == Init /\ [][Next]_vars

TypeOK ==
    /\ daemon \in BOOLEAN
    /\ tbl_entries \subseteq AllIds
    /\ clock \in StartTime..MaxTime
    /\ Len(entries) <= Len(rss)
    /\ result \in {"running", "Ok", "Err", "Panic"}
    /\ mail \in {"none", "sent", "failed"}
    /\ status \in {"running", "zero", "nonzero", "abort"}

\* ------------------------------------------------- vocabulary of the claims
\* a get_entry call has been made in the current run
CallMade == call.feed # 0

\* the last call fetched its feed and ran into no failing store query
CleanCall == CallMade /\ call.fetch.ok /\ call.fault = "none"

\* the feed configuration of the last call
CallConf == rss[call.feed]

\* what the last call fetched
Fetched == Range(call.fetch.items)

\* eligible set of the last call: before the cutoff and not processed
Eligible == { x \in Fetched : x.published < cutoff /\ x.id \notin tbl_entries }

\* the feed of the last call has a recorded lastProcessed
HasLast == CallConf.url \in DOMAIN tbl_feeds

\* fresh candidates of the last call: eligible and after lastProcessed
Fresh == { x \in Eligible : x.published > tbl_feeds[CallConf.url] }

\* the fresh candidates with the least published instant
OldestFresh == { x \in Fresh : \A y \in Fresh : x.published <= y.published }

\* position of a fetched entry in the fetched sequence
PosOf(x) == CHOOSE k \in 1..Len(call.fetch.items) : call.fetch.items[k] = x

AllFeeds == 1..Len(rss)

\* --------------------------------------------------------------- claims

\* C1 (as claimed): when a run ends after packaging and a successful delivery,
\* every delivered candidate's id is in the entries table and its feed's
\* last_processed is the candidate's published instant.
C1_CommitAfterDelivery ==
    (pc = "returned" /\ result = "Ok" /\ mail = "sent")
    => \A k \in 1..Len(entries) :
          /\ entries[k].id \in tbl_entries
          /\ FeedOf(entries[k]) \in DOMAIN tbl_feeds
          /\ tbl_feeds[FeedOf(entries[k])] = entries[k].published

\* C2 (as claimed): with no store failure so far, get_entry never selects an
\* item that was in the batch of an earlier, successfully delivered run.
C2_NeverReselected ==
    (~faulted /\ pc \in {"feeds", "epub"} /\ CallMade /\ call.res.kind = "Some")
    => call.res.entry.id \notin delivered

\* C3 (as claimed): when a run is over in which some fetch failed (and no
\* store query did), every configured feed was visited and a non-empty batch
\* was handed to packaging.
C3_FetchFailureIsolated ==
    (pc \in {"returned", "panicked"} /\ failed # {} /\ call.fault = "none")
    => /\ visited = AllFeeds
       /\ (entries # <<>> => packaged)

\* C4 (as claimed): once all feeds are visited with an empty batch, packaging
\* is never invoked and the run ends without error or abort.
C4_EmptyBatchEndsNormally ==
    (idx > Len(rss) /\ entries = <<>>
     /\ pc \in {"epub", "write", "send", "returned", "panicked"})
    => (~packaged /\ result \notin {"Err", "Panic"})

\* C5 (as claimed): in daemon mode the process never stops, whatever happens
\* inside a run.
C5_DaemonNeverStops ==
    (daemon /\ result # "running") => (pc # "exit" /\ status = "running")

\* C6: get_entry never returns a candidate published at or after the cutoff of
\* its run, and the batch never holds one.
C6_CutoffExclusion ==
    /\ (CallMade /\ call.res.kind = "Some") => call.res.entry.published < cutoff
    /\ \A k \in 1..Len(entries) : entries[k].published < cutoff

\* C6 witness: the random-fallback path returned a candidate while the fetch
\* also held a candidate published at or after the cutoff.
C6_Witness ==
    /\ CleanCall /\ call.res.kind = "Some"
    /\ HasLast /\ Fresh = {} /\ CallConf.random
    /\ \E x \in Fetched : x.published >= cutoff /\ x.id \notin tbl_entries

\* C7 (as claimed): with no recorded lastProcessed and a non-empty eligible
\* set, the selector returns the eligible candidate published last.
C7_FirstRunNewest ==
    (CleanCall /\ ~HasLast /\ Eligible # {})
    => /\ call.res.kind = "Some"
       /\ call.res.entry \in Eligible
       /\ \A x \in Eligible : x.published <= call.res.entry.published

\* C8: with lastProcessed = T and an eligible candidate published after T, the
\* selector returns a candidate published after T with the least published
\* instant among them, whatever the fetch order and the random flag.
C8_BacklogOldestFirst ==
    (CleanCall /\ HasLast /\ Fresh # {})
    => /\ call.res.kind = "Some"
       /\ call.res.entry \in Fresh
       /\ \A x \in Fresh : call.res.entry.published <= x.published

\* C8 witness: the random flag is set, the fetch lists a later fresh candidate
\* before an earlier one, and the earlier one was returned.
C8_Witness ==
    /\ CleanCall /\ HasLast /\ CallConf.random
    /\ call.res.kind = "Some"
    /\ \E x \in Fresh : /\ x.published > call.res.entry.published
                        /\ PosOf(x) < PosOf(call.res.entry)

\* C9 (as claimed): among several fresh candidates sharing the least published
\* instant the selector returns the one with the smallest id.
C9_TieBrokenById ==
    (CleanCall /\ HasLast /\ Cardinality(OldestFresh) > 1)
    => /\ call.res.kind = "Some"
       /\ call.res.entry \in OldestFresh
       /\ \A x \in OldestFresh : IdRank[call.res.entry.id] <= IdRank[x.id]

\* C9 (amended): among several fresh candidates sharing the least published
\* instant the selector returns the one that comes first in the fetched
\* sequence.
C9_TieBrokenByFetchOrder ==
    (CleanCall /\ HasLast /\ Cardinality(OldestFresh) > 1)
    => /\ call.res.kind = "Some"
       /\ call.res.entry \in OldestFresh
       /\ \A x \in OldestFresh : PosOf(call.res.entry) <= PosOf(x)

\* C9 witness: a tie in which the first fetched candidate was returned
\* although another one has the smaller id.
C9_Witness ==
    /\ CleanCall /\ HasLast /\ Cardinality(OldestFresh) > 1
    /\ call.res.kind = "Some"
    /\ \E x \in OldestFresh : IdRank[x.id] < IdRank[call.res.entry.id]

\* C10 (as claimed): with a recorded lastProcessed, a non-empty eligible set,
\* no fresh candidate and the random flag off, get_entry yields no selection
\* and no error, the loop moves on to the next feed and the batch holds
\* nothing of this feed.
C10_NothingFreshIsNoSelection ==
    (CleanCall /\ HasLast /\ Eligible # {} /\ Fresh = {} /\ ~CallConf.random)
    => /\ call.res.kind = "None"
       /\ idx = call.feed + 1
       /\ \A k \in 1..Len(entries) : entries[k] \notin Fetched

\* C11: with a recorded lastProcessed, a non-empty eligible set, no fresh
\* candidate and the random flag on, get_entry returns one candidate and it
\* is eligible (unprocessed and before the cutoff); and for every fetch that
\* the current feed can answer with, each eligible candidate is the result of
\* some draw of the generator.
C11_RandomFallbackDrawsEligible ==
    /\ (CleanCall /\ HasLast /\ Eligible # {} /\ Fresh = {} /\ CallConf.random)
       => (call.res.kind = "Some" /\ call.res.entry \in Eligible)
    /\ (pc = "feeds" /\ idx <= Len(rss) /\ rss[idx].random
        /\ rss[idx].url \in DOMAIN tbl_feeds)
       => \A fetch \in FetchOutcomes(rss[idx].url) :
            LET elig == { x \in Range(fetch.items) :
                            x.published < cutoff /\ x.id \notin tbl_entries }
            IN  (\A x \in elig : x.published <= tbl_feeds[rss[idx].url])
                => \A x \in elig :
                     \E rnd \in DrawsOf(tbl_entries, cutoff, fetch) :
                        get_entry(tbl_entries, tbl_feeds, rss[idx], cutoff,
                                  fetch, "none", rnd) = Ok(x)

\* C11 witness: the random fallback returned an eligible candidate that is
\* not the first eligible one of the fetch.
C11_Witness ==
    /\ CleanCall /\ HasLast /\ Fresh = {} /\ CallConf.random
    /\ call.res.kind = "Some"
    /\ \E x \in Eligible : PosOf(x) < PosOf(call.res.entry)

\* the run is over and its packaging or its delivery has failed
RunFailedAfterSelection ==
    /\ pc = "returned"
    /\ packaged
    /\ (result = "Err" \/ mail = "failed")

\* C12: when a run is over whose packaging or delivery failed, the entries
\* and feeds tables are what they were when the run began, and no selected
\* item is marked processed (each is still eligible in the next run).
C12_FailedRunCommitsNothing ==
    RunFailedAfterSelection
    => /\ tbl_entries = db_before.entries
       /\ tbl_feeds = db_before.feeds
       /\ \A k \in 1..Len(entries) : entries[k].id \notin tbl_entries

\* C12 witness: a run with a non-empty batch is over and the mailer has
\* reported a send failure.
C12_Witness ==
    /\ pc = "returned" /\ packaged /\ mail = "failed"
    /\ entries # <<>>

\* C13 (as claimed): single-shot mode makes one run and its exit status
\* reflects it: when the mailer reported a send failure, or process returned
\* an error, the status is not zero.
C13_SingleShotStatusReflectsRun ==
    (~daemon /\ pc = "exit")
    => (status = "zero" <=> (result = "Ok" /\ mail # "failed"))

\* C14 (as claimed): the document handed to delivery holds the content of
\* every candidate of the run's batch.
C14_ArtifactHoldsWholeBatch ==
    (pc \in {"write", "send", "returned"} /\ epub # <<>>)
    => \A k \in 1..Len(entries) : entries[k].id \in Range(epub)

\* C15: in every step a feed's recorded last_processed stays recorded and
\* does not decrease.
C15_ProgressMonotonic ==
    [][\A u \in DOMAIN tbl_feeds :
          /\ u \in DOMAIN tbl_feeds'
          /\ tbl_feeds'[u] >= tbl_feeds[u]]_vars

\* C15 witness: a daemon run has mailed a candidate of a feed whose recorded
\* last_processed lies at or after the candidate's published instant.
C15_Witness ==
    /\ daemon /\ pc = "returned" /\ mail = "sent"
    /\ \E k \in 1..Len(entries) :
         /\ FeedOf(entries[k]) \in DOMAIN tbl_feeds
         /\ tbl_feeds[FeedOf(entries[k])] >= entries[k].published

\* C16: the batch of a run never holds two candidates of one feed and never
\* more candidates than there are configured feeds.
C16_AtMostOnePerFeed ==
    /\ Len(entries) <= Len(rss)
    /\ \A j, k \in 1..Len(entries) :
         j # k => FeedOf(entries[j]) # FeedOf(entries[k])

\* C16 witness: every configured feed has contributed a candidate.
C16_Witness ==
    /\ pc = "epub"
    /\ Len(entries) = Len(rss)

\* C17 (as claimed): after a get_entry call that ran into a failing store
\* query the process has not panicked and the loop has moved on to the next
\* feed.
C17_StoreFailureIsolated ==
    (CallMade /\ call.fault # "none")
    => /\ call.res.kind # "Panic"
       /\ pc \notin {"panicked", "exit"}
       /\ idx = call.feed + 1

\* positions of the main thread inside process
InRun == pc \in {"feeds", "epub", "write", "send", "returned"}

\* C18: in daemon mode a run starts only after a next fire instant has been
\* computed in the same iteration and never before that instant; the step
\* that leads to the run sleeps until the instant when it lies ahead and
\* leaves the clock alone when the instant is now or past.
C18_RunNotBeforeFireInstant ==
    /\ []((daemon /\ (pc = "process" \/ InRun))
            => /\ next_fire > 0
               /\ clock >= next_fire
               /\ (InRun => cutoff >= next_fire))
    /\ [][pc = "daemon_wait"
            => /\ pc' = "process"
               /\ clock' = IF next_fire > clock THEN next_fire ELSE clock]_vars

\* C18 witness: the run is about to start at once because the computed fire
\* instant is already past.
C18_Witness ==
    /\ daemon /\ pc = "process"
    /\ next_fire > 0 /\ next_fire < clock

\* C19: a step of the daemon loop that computes no next fire instant starts
\* no run and does not end the process: it lets the backoff pass (one step
\* of the clock) and is back at computing the next fire instant.
C19_NoFireInstantBacksOff ==
    [][(pc = "daemon_loop" /\ next_fire' = 0)
         => /\ pc' = "daemon_loop"
            /\ clock' = clock + 1
            /\ status' = "running"
            /\ UNCHANGED run_vars]_vars

\* C19 witness: the daemon is computing again after a backoff (no run can
\* have ended that early).
C19_Witness ==
    /\ daemon /\ pc = "daemon_loop"
    /\ clock = StartTime + 1
    /\ status = "running"

\* C20: get_entry never returns a candidate whose id is in the entries table,
\* and when every fetched candidate before the cutoff is in it, the feed
\* yields no selection and no error.
C20_ProcessedExclusion ==
    /\ (CallMade /\ call.res.kind = "Some") => call.res.entry.id \notin tbl_entries
    /\ \A k \in 1..Len(entries) : entries[k].id \notin tbl_entries
    /\ (CleanCall /\ Eligible = {}) => call.res.kind = "None"

\* C20 witness: the fetch held a processed candidate published before the
\* cutoff, and the random fallback returned another one.
C20_Witness ==
    /\ CleanCall /\ call.res.kind = "Some"
    /\ HasLast /\ Fresh = {} /\ CallConf.random
    /\ \E x \in Fetched : x.published < cutoff /\ x.id \in tbl_entries
====
